---- MODULE Spec2Model ----
(***************************************************************************)
(* Model of the hawkflow-go client (src/hawkflow.go): validation of the    *)
(* arguments of Start / End / Exception / Metrics, the error factory, and  *)
(* the recursive sendWithRetry / send pair of the retryable-flag policy.   *)
(* The status-code policy of src/unnamed/part_000 is modelled next to it   *)
(* (Spec_part000); SpecNew constructs clients from every option, SpecConc  *)
(* lets the calls of two goroutines interleave on one client, and SpecFair *)
(* adds the fairness under which a call ends.                              *)
(*                                                                         *)
(* Strings are run-length encoded: a string is a sequence of runs          *)
(* [c |-> code point, n |-> repetitions], n >= 1.  len() of Go counts      *)
(* bytes of the UTF-8 encoding, so ByteLen weighs each run by the width    *)
(* of its code point.                                                      *)
(***************************************************************************)
EXTENDS Integers, Sequences, FiniteSets, TLC

VARIABLES
    hfc,        \* the client struct
    pc,         \* "idle", "sendWithRetry" (a frame of it is about to run) or "done"
    call,       \* the running call: its operation, path, initial budget, and
                \* the arguments of a call of New or log
    r,          \* the request of the running call
    count,      \* the budget argument of the current sendWithRetry frame
    depth,      \* how many frames of sendWithRetry the call has entered
    retry,      \* the flag returned by the last send
    err,        \* the error the call returned (once pc = "done")
    responses,  \* what httpClient.Do answered to the running call, in order
    printed,    \* what logger.Print received from the running call, in order
    request,    \* the last request handed to httpClient.Do by the running call
    parked      \* the call of another goroutine on the same client, not running now

vars == <<hfc, pc, call, r, count, depth, retry, err, responses, printed, request, parked>>

(***************************************************************************)
(* Bounds of the model.                                                    *)
(***************************************************************************)
\* largest retry budget given to OptionMaxRetries / sendWithRetry
MaxBudget == 3

(***************************************************************************)
(* Program constants.                                                      *)
(***************************************************************************)
DefaultMaxRetries == 3
DefaultTimeout == 1000
MaxApiKeyLen == 50
MaxProcessLen == 250
MaxMetaLen == 500
MaxUIDLen == 50
MaxExceptionMessageLen == 15000
MaxItemKeyLen == 50
StatusCreated == 201
StatusUnauthorized == 401
Uint8 == 256

_ENDPOINT == "https://api.hawkflow.ai/v1/"
DocSuffix == "Please see documentation at https://docs.hawkflow.ai/integration/index.html"

(***************************************************************************)
(* Strings.                                                                *)
(***************************************************************************)
\* the string made of n copies of the character with code point c
Rep(c, n) == IF n = 0 THEN <<>> ELSE <<[c |-> c, n |-> n]>>

\* width in bytes of the UTF-8 encoding of a code point
Utf8Width(c) == IF c < 128 THEN 1 ELSE IF c < 2048 THEN 2 ELSE IF c < 65536 THEN 3 ELSE 4

RECURSIVE ByteLen(_)
\* Go's len(s): the number of bytes of s
ByteLen(s) == IF s = <<>> THEN 0 ELSE Head(s).n * Utf8Width(Head(s).c) + ByteLen(Tail(s))

RECURSIVE CharLen(_)
\* the number of characters (code points) of s
CharLen(s) == IF s = <<>> THEN 0 ELSE Head(s).n + CharLen(Tail(s))

\* the character class [a-zA-Z0-9_-] of the validators' patterns
WordChar(c) == \/ (c >= 97 /\ c <= 122)
               \/ (c >= 65 /\ c <= 90)
               \/ (c >= 48 /\ c <= 57)
               \/ c = 95
               \/ c = 45

\* regexp.MatchString("^[a-zA-Z0-9_-]*$", s)
MatchStar(s) == \A i \in 1..Len(s) : WordChar(s[i].c)

\* regexp.MatchString("^[a-zA-Z0-9_-]+$", s)
MatchPlus(s) == s # <<>> /\ MatchStar(s)

(***************************************************************************)
(* Errors.  A Go error value is nil or carries a text; the text is kept as *)
(* the sequence of the pieces it was formatted from.                       *)
(***************************************************************************)
nil == [isNil |-> TRUE, text |-> <<>>, arg |-> <<>>]

\* errors.New(text)
errorsNew(text) == [isNil |-> FALSE, text |-> <<text>>, arg |-> <<>>]

\* fmt.Errorf("%s %s", msg, documentation link)
createError(msg) == [isNil |-> FALSE, text |-> <<msg, " ", DocSuffix>>, arg |-> <<>>]

\* createError(fmt.Sprintf(format, a)): a is the string put in place of %s
createErrorf(format, a) == [createError(format) EXCEPT !.arg = a]

(***************************************************************************)
(* Validators.                                                             *)
(***************************************************************************)
\* send without the check of the API key
validateApiKey_Skipped(apiKey) == nil

\* validateApiKey without its length check
validateApiKey_NoLength(apiKey) ==
    IF apiKey = <<>> THEN createError("No API Key set.")
    ELSE IF ~MatchPlus(apiKey) THEN createError("Invalid API Key format.")
    ELSE nil

validateApiKey(apiKey) ==
    IF apiKey = <<>> THEN createError("No API Key set.")
    ELSE IF ByteLen(apiKey) > MaxApiKeyLen THEN createError("Invalid API Key format.")
    ELSE IF ~MatchPlus(apiKey) THEN createError("Invalid API Key format.")
    ELSE nil

\* validateProcess with its length check off by one
validateProcess_OffByOne(process) ==
    IF process = <<>> THEN createError("No process set.")
    ELSE IF ByteLen(process) >= MaxProcessLen
         THEN createError("Process parameter exceeded max length of 250 characters.")
    ELSE IF ~MatchPlus(process)
         THEN createError("Process parameter contains unsupported characters.")
    ELSE nil

validateProcess(process) ==
    IF process = <<>> THEN createError("No process set.")
    ELSE IF ByteLen(process) > MaxProcessLen
         THEN createError("Process parameter exceeded max length of 250 characters.")
    ELSE IF ~MatchPlus(process)
         THEN createError("Process parameter contains unsupported characters.")
    ELSE nil

validateMeta(meta) ==
    IF ByteLen(meta) > MaxMetaLen
    THEN createError("Meta parameter exceeded max length of 500 characters.")
    ELSE IF ~MatchStar(meta)
         THEN createError("Meta parameter contains unsupported characters.")
    ELSE nil

validateUID(uid) ==
    IF ByteLen(uid) > MaxUIDLen
    THEN createError("UID parameter exceeded max length of 50 characters.")
    ELSE IF ~MatchStar(uid)
         THEN createError("UID parameter contains unsupported characters.")
    ELSE nil

validateExceptionMessage(exceptionMessage) ==
    IF ByteLen(exceptionMessage) > MaxExceptionMessageLen
    THEN createError("ExceptionMessage parameter exceeded max length of 15000 characters.")
    ELSE nil

\* the keys the range loop may meet first among those that are too long (the
\* iteration order of a Go map is not specified); <<>> when there is none
LongKeys(items) ==
    IF \E k \in DOMAIN items : ByteLen(k) > MaxItemKeyLen
    THEN {k \in DOMAIN items : ByteLen(k) > MaxItemKeyLen}
    ELSE {<<>>}

\* first: the too-long key the range loop meets first
validateMetricItems(items, first) ==
    IF Cardinality(DOMAIN items) = 0 THEN createError("No items set.")
    ELSE IF \E k \in DOMAIN items : ByteLen(k) > MaxItemKeyLen
         THEN createErrorf("Item key %s exceeded max length of 50 characters.", first)
    ELSE nil

\* validateTime checking meta before process
validateTime_MetaFirst(rq) ==
    IF ~validateMeta(rq.Meta).isNil THEN validateMeta(rq.Meta)
    ELSE IF ~validateProcess(rq.Process).isNil THEN validateProcess(rq.Process)
    ELSE IF ~validateUID(rq.UID).isNil THEN validateUID(rq.UID)
    ELSE nil

\* validateTime, called by Start and End
validateTime(rq) ==
    IF ~validateProcess(rq.Process).isNil THEN validateProcess(rq.Process)
    ELSE IF ~validateMeta(rq.Meta).isNil THEN validateMeta(rq.Meta)
    ELSE IF ~validateUID(rq.UID).isNil THEN validateUID(rq.UID)
    ELSE nil

validateException(rq) ==
    IF ~validateProcess(rq.Process).isNil THEN validateProcess(rq.Process)
    ELSE IF ~validateMeta(rq.Meta).isNil THEN validateMeta(rq.Meta)
    ELSE IF ~validateExceptionMessage(rq.ExceptionMessage).isNil
         THEN validateExceptionMessage(rq.ExceptionMessage)
    ELSE nil

validateMetric(rq, first) ==
    IF ~validateProcess(rq.Process).isNil THEN validateProcess(rq.Process)
    ELSE IF ~validateMeta(rq.Meta).isNil THEN validateMeta(rq.Meta)
    ELSE IF ~validateMetricItems(rq.Items, first).isNil
         THEN validateMetricItems(rq.Items, first)
    ELSE nil

(***************************************************************************)
(* The request payload and its JSON encoding.                              *)
(***************************************************************************)
\* a map[string]float64 with no entry (nil or empty)
NoItems == <<>>

\* the request struct; a field that is not given holds its zero value
Request(process, meta, uid, message, items) ==
    [Process |-> process, Meta |-> meta, UID |-> uid,
     ExceptionMessage |-> message, Items |-> items]

\* float64 values encoding/json cannot represent
Unsupported(v) == v \in {"NaN", "+Inf", "-Inf"}

\* Encode without omitempty on meta
jsonEncode_MetaAlways(rq) ==
    IF \E k \in DOMAIN rq.Items : Unsupported(rq.Items[k])
    THEN [err |-> errorsNew("json: unsupported value"), body |-> <<>>]
    ELSE [err |-> nil,
          body |-> <<[key |-> "process", value |-> rq.Process]>>
                   \o <<[key |-> "meta", value |-> rq.Meta]>>
                   \o (IF rq.UID = <<>> THEN <<>>
                       ELSE <<[key |-> "uid", value |-> rq.UID]>>)
                   \o (IF rq.ExceptionMessage = <<>> THEN <<>>
                       ELSE <<[key |-> "exception", value |-> rq.ExceptionMessage]>>)
                   \o (IF Cardinality(DOMAIN rq.Items) = 0 THEN <<>>
                       ELSE <<[key |-> "items", value |-> rq.Items]>>)
                   \o <<[key |-> "\n", value |-> <<>>]>>]

\* json.NewEncoder(body).Encode(r): the fields in declaration order, the
\* omitempty ones left out when empty, and a newline after the object
jsonEncode(rq) ==
    IF \E k \in DOMAIN rq.Items : Unsupported(rq.Items[k])
    THEN [err |-> errorsNew("json: unsupported value"), body |-> <<>>]
    ELSE [err |-> nil,
          body |-> <<[key |-> "process", value |-> rq.Process]>>
                   \o (IF rq.Meta = <<>> THEN <<>>
                       ELSE <<[key |-> "meta", value |-> rq.Meta]>>)
                   \o (IF rq.UID = <<>> THEN <<>>
                       ELSE <<[key |-> "uid", value |-> rq.UID]>>)
                   \o (IF rq.ExceptionMessage = <<>> THEN <<>>
                       ELSE <<[key |-> "exception", value |-> rq.ExceptionMessage]>>)
                   \o (IF Cardinality(DOMAIN rq.Items) = 0 THEN <<>>
                       ELSE <<[key |-> "items", value |-> rq.Items]>>)
                   \o <<[key |-> "\n", value |-> <<>>]>>]

(***************************************************************************)
(* The client and its construction.                                        *)
(***************************************************************************)
DefaultLogger == "log.New(os.Stderr)"

\* &http.Client{Timeout: timeout}
HTTPClient(timeout) == [type |-> "http.Client", Timeout |-> timeout]

\* An option is a closure that writes one field of the client; it is kept as
\* the name of that field and the value it writes, in the slot of its type.
Option(set, n, b, l, c) == [set |-> set, uint8 |-> n, bool |-> b, logger |-> l, httpClient |-> c]

OptionMaxRetries(maxRetries) == Option("maxRetries", maxRetries, FALSE, "", HTTPClient(0))

OptionTimeout(timeout) == Option("httpClient", 0, FALSE, "", HTTPClient(timeout))

OptionDebug(b) == Option("debug", 0, b, "", HTTPClient(0))

OptionLogger(l) == Option("logger", 0, FALSE, l, HTTPClient(0))

OptionHTTPClient(c) == Option("httpClient", 0, FALSE, "", c)

\* opt(hfc): the client after one option has been applied to it
Apply(c, opt) ==
    CASE opt.set = "maxRetries" -> [c EXCEPT !.maxRetries = opt.uint8]
      [] opt.set = "debug" -> [c EXCEPT !.debug = opt.bool]
      [] opt.set = "logger" -> [c EXCEPT !.logger = opt.logger]
      [] opt.set = "httpClient" -> [c EXCEPT !.httpClient = opt.httpClient]

RECURSIVE ApplyAll_FirstWins(_, _)
\* the options applied from the last to the first
ApplyAll_FirstWins(c, options) ==
    IF options = <<>> THEN c
    ELSE Apply(ApplyAll_FirstWins(c, Tail(options)), Head(options))

RECURSIVE ApplyAll(_, _)
\* for _, opt := range options { opt(hfc) }
ApplyAll(c, options) ==
    IF options = <<>> THEN c ELSE ApplyAll(Apply(c, Head(options)), Tail(options))

New(apiKey, options) ==
    ApplyAll([apiKey |-> apiKey,
              endpoint |-> _ENDPOINT,
              maxRetries |-> DefaultMaxRetries,
              debug |-> FALSE,
              logger |-> DefaultLogger,
              httpClient |-> HTTPClient(DefaultTimeout)],
             options)

\* log without its check of debug
log_Always(c, out, m) == Append(out, [prefix |-> "HF ", m |-> m, nl |-> "\n"])

\* hfc.log(m) on a client c whose logger has printed out so far
log(c, out, m) ==
    IF c.debug THEN Append(out, [prefix |-> "HF ", m |-> m, nl |-> "\n"]) ELSE out

\* fmt.Sprintf(format, args...)
Sprintf(format, args) == [format |-> format, args |-> args]

(***************************************************************************)
(* The HTTP sender.  What Do answers is up to the network or to the mock.  *)
(***************************************************************************)
\* Do returned a response
Response(status, body) == [err |-> nil, StatusCode |-> status, Status |-> "", Body |-> body]

\* Do returned an error
DoError(text) == [err |-> errorsNew(text), StatusCode |-> 0, Status |-> "", Body |-> ""]

Outcomes ==
    { Response(StatusCreated, ""),
      Response(StatusUnauthorized, "{status:401,message:unauthorized}"),
      Response(StatusUnauthorized, ""),
      Response(500, "{status:500,message:Server error}"),
      Response(200, "OK"),
      DoError("dial tcp: i/o timeout") }

\* no request has been handed to the sender
NoRequest == [Method |-> "", URL |-> <<>>, Body |-> <<>>, Header |-> <<>>]

\* http.NewRequest(method, url, body); the url is the constant endpoint and
\* a path, which always parses
httpNewRequest(method, url, body) ==
    [err |-> nil, req |-> [Method |-> method, URL |-> url, Body |-> body, Header |-> <<>>]]

\* req.Header.Set(key, value)
HeaderSet(req, key, value) ==
    [req EXCEPT !.Header = Append(@, [key |-> key, value |-> value])]

(***************************************************************************)
(* send: one attempt.  o is what Do answers if it is invoked.              *)
(***************************************************************************)
\* send giving up on an error of Do
sendDoFailed_NoRetry(e) == [retry |-> FALSE, err |-> e]

\* send when httpClient.Do returned the error e
sendDoFailed(e) == [retry |-> TRUE, err |-> e]

\* send giving up on every failed response
sendClassify_NoRetry(resp) ==
    IF StatusCreated # resp.StatusCode
    THEN [retry |-> FALSE, err |-> errorsNew(resp.Body)]
    ELSE [retry |-> FALSE, err |-> nil]

\* send taking 200 for the status of success
sendClassify_Only200(resp) ==
    IF StatusUnauthorized = resp.StatusCode
    THEN [retry |-> FALSE, err |-> errorsNew(resp.Body)]
    ELSE IF 200 # resp.StatusCode
         THEN [retry |-> TRUE, err |-> errorsNew(resp.Body)]
    ELSE [retry |-> FALSE, err |-> nil]

\* send without its check for 401
sendClassify_401Retried(resp) ==
    IF StatusCreated # resp.StatusCode
    THEN [retry |-> TRUE, err |-> errorsNew(resp.Body)]
    ELSE [retry |-> FALSE, err |-> nil]

\* send taking every status below 300 for a success
sendClassify_Any2xx(resp) ==
    IF StatusUnauthorized = resp.StatusCode
    THEN [retry |-> FALSE, err |-> errorsNew(resp.Body)]
    ELSE IF resp.StatusCode >= 300
         THEN [retry |-> TRUE, err |-> errorsNew(resp.Body)]
    ELSE [retry |-> FALSE, err |-> nil]

\* send's classification of a response received from Do
sendClassify(resp) ==
    IF StatusUnauthorized = resp.StatusCode
    THEN [retry |-> FALSE, err |-> errorsNew(resp.Body)]
    ELSE IF StatusCreated # resp.StatusCode
         THEN [retry |-> TRUE, err |-> errorsNew(resp.Body)]
    ELSE [retry |-> FALSE, err |-> nil]

\* the result of send: the returned pair, whether Do was invoked, and the
\* logger output and last request after it
send(c, rq, path, o, out, last) ==
    LET kerr == validateApiKey(c.apiKey)
        enc  == jsonEncode(rq)
        out1 == log(c, log(c, out, Sprintf("Requesting path: %s", <<path>>)),
                    Sprintf("Sending data: %s", <<enc.body>>))
        nr   == httpNewRequest("POST", <<c.endpoint, path>>, enc.body)
        req  == HeaderSet(HeaderSet(nr.req, "content-type", "application/json"),
                          "x-hawkflow-api-key", c.apiKey)
        out2 == log(c, log(c, out1, Sprintf("Response Status: %s", <<o.Status>>)),
                    Sprintf("Response Body: %s", <<o.Body>>))
    IN  IF ~kerr.isNil
        THEN [retry |-> FALSE, err |-> kerr, sent |-> FALSE, printed |-> out, request |-> last]
        ELSE IF ~enc.err.isNil
        THEN [retry |-> FALSE, err |-> enc.err, sent |-> FALSE, printed |-> out, request |-> last]
        ELSE IF ~nr.err.isNil
        THEN [retry |-> FALSE, err |-> nr.err, sent |-> FALSE, printed |-> out1, request |-> last]
        ELSE IF ~o.err.isNil
        THEN [retry |-> sendDoFailed(o.err).retry, err |-> sendDoFailed(o.err).err,
              sent |-> TRUE, printed |-> out1, request |-> req]
        ELSE [retry |-> sendClassify(o).retry, err |-> sendClassify(o).err,
              sent |-> TRUE, printed |-> out2, request |-> req]

(***************************************************************************)
(* sendWithRetry: one frame of the recursion per step.                     *)
(***************************************************************************)
\* the budget check off by one
budgetExhausted_OffByOne(n) == 1 >= n

\* the budget check with a strict comparison, never true of a uint8
budgetExhausted_Strict(n) == 0 > n

\* if 0 >= count
budgetExhausted(n) == 0 >= n

\* the recursion with the budget it was given
decrement_None(n) == n

\* count-1, on a uint8
decrement(n) == (n - 1) % Uint8

\* a frame that takes its budget from the client and writes it back
hfcAfterFrame_SharedBudget(c) == [c EXCEPT !.maxRetries = decrement(@)]

\* the client after a frame of sendWithRetry and the send in it: neither
\* assigns a field of hfc
hfcAfterFrame(c) == c

RECURSIVE sendWithRetry(_, _, _, _, _)
\* sendWithRetry(r, path, count) as a function of the answers the sender
\* gives to this call: the error returned and the answers left over;
\* pending when the answers end before the call does
sendWithRetry(c, rq, path, n, answers) ==
    IF budgetExhausted(n)
    THEN [err |-> createError("Connection failed permanently."),
          rest |-> answers, pending |-> FALSE]
    ELSE LET o == IF answers = <<>> THEN Response(0, "") ELSE Head(answers)
             s == send(c, rq, path, o, <<>>, NoRequest)
             rest == IF s.sent THEN Tail(answers) ELSE answers
         IN  IF s.sent /\ answers = <<>>
             THEN [err |-> nil, rest |-> <<>>, pending |-> TRUE]
             ELSE IF ~s.err.isNil
                  THEN IF ~s.retry
                       THEN [err |-> s.err, rest |-> rest, pending |-> FALSE]
                       ELSE sendWithRetry(c, rq, path, decrement(n), rest)
                  ELSE [err |-> nil, rest |-> rest, pending |-> FALSE]

\* a frame of sendWithRetry(r, path, count): it returns, or it calls itself
SendWithRetry ==
    /\ pc = "sendWithRetry"
    /\ depth' = depth + 1
    /\ hfc' = hfcAfterFrame(hfc)
    /\ UNCHANGED <<call, r, parked>>
    /\ IF budgetExhausted(count)
       THEN /\ pc' = "done"
            /\ err' = createError("Connection failed permanently.")
            /\ UNCHANGED <<count, retry, responses, printed, request>>
       ELSE \E o \in Outcomes :
            LET s == send(hfc, r, call.path, o, printed, request)
            IN  /\ retry' = s.retry
                /\ responses' = IF s.sent THEN Append(responses, o) ELSE responses
                /\ request' = s.request
                /\ IF ~s.err.isNil
                   THEN /\ printed' = log(hfc, s.printed,
                                Sprintf("Connection failed on attempt %d with error: %s",
                                        <<count, s.err>>))
                        /\ IF ~s.retry
                           THEN pc' = "done" /\ err' = s.err /\ count' = count
                           ELSE pc' = pc /\ err' = err /\ count' = decrement(count)
                   ELSE /\ printed' = s.printed
                        /\ pc' = "done" /\ err' = nil /\ count' = count

(***************************************************************************)
(* The status-code policy (src/unnamed/part_000): send returns the status  *)
(* code and an error, and sendWithRetry decides on the status code.        *)
(***************************************************************************)
\* Encode with the tag of ExceptionMessage in part_000: "exception_text"
jsonEncode_part000(rq) ==
    LET enc == jsonEncode(rq)
    IN  [err |-> enc.err,
         body |-> [i \in 1..Len(enc.body) |->
                      IF enc.body[i].key = "exception"
                      THEN [key |-> "exception_text", value |-> enc.body[i].value]
                      ELSE enc.body[i]]]

\* what the sender may answer: the answers above, and a response whose
\* StatusCode is 0, as the zero value of ClientMock gives
Outcomes_part000 == Outcomes \cup { Response(0, "") }

\* send of part_000: the returned pair, whether Do was invoked, and the
\* logger output and last request after it
send_part000(c, rq, path, o, out, last) ==
    LET kerr == validateApiKey(c.apiKey)
        enc  == jsonEncode_part000(rq)
        out1 == log(c, log(c, out, Sprintf("Requesting path: %s", <<path>>)),
                    Sprintf("Sending data: %s", <<enc.body>>))
        nr   == httpNewRequest("POST", <<c.endpoint, path>>, enc.body)
        req  == HeaderSet(HeaderSet(nr.req, "content-type", "application/json"),
                          "x-hawkflow-api-key", c.apiKey)
        out2 == log(c, log(c, out1, Sprintf("Response Status: %s", <<o.Status>>)),
                    Sprintf("Response Body: %s", <<o.Body>>))
    IN  IF ~kerr.isNil
        THEN [statusCode |-> 0, err |-> kerr, sent |-> FALSE, printed |-> out, request |-> last]
        ELSE IF ~enc.err.isNil
        THEN [statusCode |-> 0, err |-> enc.err, sent |-> FALSE, printed |-> out, request |-> last]
        ELSE IF ~nr.err.isNil
        THEN [statusCode |-> 0, err |-> nr.err, sent |-> FALSE, printed |-> out1, request |-> last]
        ELSE IF ~o.err.isNil
        THEN [statusCode |-> 0, err |-> o.err, sent |-> TRUE, printed |-> out1, request |-> req]
        ELSE [statusCode |-> o.StatusCode, err |-> nil, sent |-> TRUE, printed |-> out2,
              request |-> req]

\* if nil != err || statusCode != http.StatusCreated
failed_part000(s) == ~s.err.isNil \/ s.statusCode # StatusCreated

\* if 0 == statusCode { return err }
notRetried_part000(statusCode) == 0 = statusCode

\* a frame of sendWithRetry(r, path, retry) of part_000; the budget
\* argument is held in count
SendWithRetry_part000 ==
    /\ pc = "sendWithRetry"
    /\ depth' = depth + 1
    /\ UNCHANGED <<hfc, call, r, retry, parked>>
    /\ IF budgetExhausted(count)
       THEN /\ pc' = "done"
            /\ err' = createError("Connection failed permanently.")
            /\ UNCHANGED <<count, responses, printed, request>>
       ELSE \E o \in Outcomes_part000 :
            LET s == send_part000(hfc, r, call.path, o, printed, request)
            IN  /\ responses' = IF s.sent THEN Append(responses, o) ELSE responses
                /\ request' = s.request
                /\ IF failed_part000(s)
                   THEN /\ printed' = log(hfc, s.printed,
                                Sprintf("Connection failed with status code %d on attempt: %d",
                                        <<s.statusCode, count>>))
                        /\ IF notRetried_part000(s.statusCode)
                           THEN pc' = "done" /\ err' = s.err /\ count' = count
                           ELSE pc' = pc /\ err' = err /\ count' = decrement(count)
                   ELSE /\ printed' = s.printed
                        /\ pc' = "done" /\ err' = nil /\ count' = count

(***************************************************************************)
(* The public operations.  Each builds its request, validates it, logs and *)
(* hands it to sendWithRetry with the configured budget.                   *)
(***************************************************************************)
\* the operation going on after a failed validation
validationFailed_Ignored(verr) == FALSE

\* if err != nil { return err } after the validation chain
validationFailed(verr) == ~verr.isNil

\* a call begins: the request rq was built and its validation returned verr
Begin(op, path, rq, verr, m) ==
    /\ pc = "idle"
    /\ r' = rq
    /\ retry' = FALSE
    /\ depth' = 0
    /\ responses' = <<>>
    /\ request' = NoRequest
    /\ UNCHANGED <<hfc, parked>>
    /\ IF validationFailed(verr)
       THEN /\ pc' = "done"
            /\ err' = verr
            /\ count' = 0
            /\ printed' = <<>>
            /\ call' = [op |-> op, path |-> path, budget |-> 0, args |-> <<>>]
       ELSE /\ pc' = "sendWithRetry"
            /\ err' = nil
            /\ count' = hfc.maxRetries
            /\ printed' = log(hfc, <<>>, m)
            /\ call' = [op |-> op, path |-> path, budget |-> hfc.maxRetries, args |-> <<>>]

Start(process, meta, uid) ==
    LET rq == Request(process, meta, uid, <<>>, NoItems)
    IN  Begin("Start", "start", rq, validateTime(rq), Sprintf("Start: %s", <<process>>))

End(process, meta, uid) ==
    LET rq == Request(process, meta, uid, <<>>, NoItems)
    IN  Begin("End", "end", rq, validateTime(rq), Sprintf("End: %s", <<process>>))

Exception(process, meta, message) ==
    LET rq == Request(process, meta, <<>>, message, NoItems)
    IN  Begin("Exception", "exception", rq, validateException(rq),
              Sprintf("Exception: %s", <<process>>))

Metrics(process, meta, items) ==
    LET rq == Request(process, meta, <<>>, <<>>, items)
    IN  \E first \in LongKeys(items) :
            Begin("Metrics", "metrics", rq, validateMetric(rq, first),
                  Sprintf("Metrics: %s", <<process>>))

\* sendWithRetry called directly with a budget, as the package's tests do
CallSendWithRetry(rq, path, n) ==
    /\ pc = "idle"
    /\ pc' = "sendWithRetry"
    /\ call' = [op |-> "sendWithRetry", path |-> path, budget |-> n, args |-> <<>>]
    /\ r' = rq
    /\ count' = n
    /\ depth' = 0
    /\ retry' = FALSE
    /\ err' = nil
    /\ responses' = <<>>
    /\ printed' = <<>>
    /\ request' = NoRequest
    /\ UNCHANGED <<hfc, parked>>

\* send called directly, as the package's tests do
CallSend(rq, path) ==
    /\ pc = "idle"
    /\ \E o \in Outcomes :
       LET s == send(hfc, rq, path, o, <<>>, NoRequest)
       IN  /\ pc' = "done"
           /\ call' = [op |-> "send", path |-> path, budget |-> 0, args |-> <<>>]
           /\ r' = rq
           /\ count' = 0
           /\ depth' = 0
           /\ retry' = s.retry
           /\ err' = s.err
           /\ responses' = IF s.sent THEN <<o>> ELSE <<>>
           /\ printed' = s.printed
           /\ request' = s.request
    /\ UNCHANGED <<hfc, parked>>

\* hfc.log(m) called directly, as the package's tests do
CallLog(m) ==
    /\ pc = "idle"
    /\ pc' = "done"
    /\ call' = [op |-> "log", path |-> "", budget |-> 0, args |-> <<m>>]
    /\ printed' = log(hfc, <<>>, m)
    /\ UNCHANGED <<hfc, r, count, depth, retry, err, responses, request, parked>>

\* hfc := New(apiKey, options...): the client is replaced by a new one
CallNew(apiKey, options) ==
    /\ pc = "idle"
    /\ pc' = "done"
    /\ call' = [op |-> "New", path |-> "", budget |-> 0, args |-> <<apiKey, options>>]
    /\ hfc' = New(apiKey, options)
    /\ UNCHANGED <<r, count, depth, retry, err, responses, printed, request, parked>>

\* the locals of a call that has not begun
IdleCall ==
    [pc |-> "idle",
     call |-> [op |-> "", path |-> "", budget |-> 0, args |-> <<>>],
     r |-> [Process |-> <<>>, Meta |-> <<>>, UID |-> <<>>,
            ExceptionMessage |-> <<>>, Items |-> NoItems],
     count |-> 0, depth |-> 0, retry |-> FALSE, err |-> nil,
     responses |-> <<>>, printed |-> <<>>, request |-> NoRequest]

\* the locals of the running call
Running ==
    [pc |-> pc, call |-> call, r |-> r, count |-> count, depth |-> depth,
     retry |-> retry, err |-> err, responses |-> responses, printed |-> printed,
     request |-> request]

\* the scheduler runs the other goroutine: the running call is parked where
\* it is and the parked one goes on; the client is the same for both
Switch ==
    /\ pc' = parked.pc
    /\ call' = parked.call
    /\ r' = parked.r
    /\ count' = parked.count
    /\ depth' = parked.depth
    /\ retry' = parked.retry
    /\ err' = parked.err
    /\ responses' = parked.responses
    /\ printed' = parked.printed
    /\ request' = parked.request
    /\ parked' = Running
    /\ UNCHANGED hfc

\* the caller has taken the result; the request and the locals of the call
\* are dropped, the client stays as it is
Return ==
    /\ pc = "done"
    /\ pc' = "idle"
    /\ call' = [op |-> "", path |-> "", budget |-> 0, args |-> <<>>]
    /\ r' = [Process |-> <<>>, Meta |-> <<>>, UID |-> <<>>,
             ExceptionMessage |-> <<>>, Items |-> NoItems]
    /\ count' = 0
    /\ depth' = 0
    /\ retry' = FALSE
    /\ err' = nil
    /\ responses' = <<>>
    /\ printed' = <<>>
    /\ request' = NoRequest
    /\ UNCHANGED <<hfc, parked>>

(***************************************************************************)
(* Inputs.                                                                 *)
(***************************************************************************)
\* "aZ9_-"
Word == <<[c |-> 97, n |-> 1], [c |-> 90, n |-> 1], [c |-> 57, n |-> 1],
          [c |-> 95, n |-> 1], [c |-> 45, n |-> 1]>>

\* code points next to the ranges of the character class, a space, a
\* newline and U+274C (three bytes in UTF-8)
OtherChars == {96, 123, 64, 91, 47, 58, 32, 10, 10060}

ApiKeys ==
    { <<>>, Word, Rep(97, MaxApiKeyLen), Rep(97, MaxApiKeyLen + 1),
      Word \o Rep(32, 1), Rep(10060, 2), Rep(10060, 17) }

Processes ==
    { <<>>, Word, Rep(122, MaxProcessLen), Rep(97, MaxProcessLen + 1),
      Rep(97, MaxProcessLen) \o Rep(32, 1), Rep(10060, 84), Rep(10060, 83) }
    \cup { Rep(48, 1) \o Rep(c, 1) : c \in OtherChars }

Metas ==
    { <<>>, Rep(65, MaxMetaLen), Rep(65, MaxMetaLen + 1), Rep(32, 1),
      Rep(10060, 167) }

UIDs ==
    { <<>>, Rep(45, MaxUIDLen), Rep(45, MaxUIDLen + 1), Rep(32, 1), Rep(10060, 17) }

Messages ==
    { <<>>, Word \o Rep(32, 1) \o Rep(10060, 1),
      Rep(32, MaxExceptionMessageLen), Rep(32, MaxExceptionMessageLen + 1) }

ItemMaps ==
    { NoItems,
      (Word :> "123"),
      (Rep(32, MaxItemKeyLen) :> "NaN"),
      (Word :> "1.5") @@ (Rep(32, MaxItemKeyLen) :> "-2"),
      (Rep(97, MaxItemKeyLen + 1) :> "1"),
      (Rep(10060, 17) :> "1"),
      (Word :> "1") @@ (Rep(97, MaxItemKeyLen + 1) :> "2") @@ (Rep(98, MaxItemKeyLen + 2) :> "3") }

\* largest retry budget of the client two goroutines share
MaxConcBudget == 2

\* the longest list of options given to New
MaxOptions == 2

Options ==
    { OptionMaxRetries(n) : n \in 0..MaxBudget }
    \cup { OptionDebug(TRUE), OptionHTTPClient([type |-> "ClientMock", Timeout |-> 0]) }

OptionLists == UNION { [1..n -> Options] : n \in 0..MaxOptions }

\* the options of the package, with a value that differs from the default
\* and one that restores it
AllOptions ==
    Options \cup { OptionDebug(FALSE), OptionLogger("log.New(buf)"),
                   OptionTimeout(123), OptionTimeout(DefaultTimeout) }

AllOptionLists == UNION { [1..n -> AllOptions] : n \in 0..MaxOptions }

\* the messages handed to log directly
LogMessages == { Sprintf("test log message", <<>>), Sprintf("", <<>>) }

(***************************************************************************)
(* The specification.                                                      *)
(***************************************************************************)
Init ==
    /\ hfc \in { New(k, opts) : k \in ApiKeys, opts \in OptionLists }
    /\ pc = "idle"
    /\ call = [op |-> "", path |-> "", budget |-> 0, args |-> <<>>]
    /\ r = [Process |-> <<>>, Meta |-> <<>>, UID |-> <<>>,
            ExceptionMessage |-> <<>>, Items |-> NoItems]
    /\ count = 0
    /\ depth = 0
    /\ retry = FALSE
    /\ err = nil
    /\ responses = <<>>
    /\ printed = <<>>
    /\ request = NoRequest
    /\ parked = IdleCall

\* the request the package's tests hand to sendWithRetry and send: &request{}
EmptyRequest == Request(<<>>, <<>>, <<>>, <<>>, NoItems)

Next ==
    \/ pc = "idle" /\ \E process \in Processes, meta \in Metas, uid \in UIDs :
           Start(process, meta, uid)
    \/ pc = "idle" /\ \E process \in Processes, meta \in Metas, uid \in UIDs :
           End(process, meta, uid)
    \/ pc = "idle" /\ \E process \in Processes, meta \in Metas, message \in Messages :
           Exception(process, meta, message)
    \/ pc = "idle" /\ \E process \in Processes, meta \in Metas, items \in ItemMaps :
           Metrics(process, meta, items)
    \/ pc = "idle" /\ \E n \in 0..MaxBudget : CallSendWithRetry(EmptyRequest, "/v1/test", n)
    \/ pc = "idle" /\ CallSend(EmptyRequest, "/v1/test")
    \/ pc = "idle" /\ \E m \in LogMessages : CallLog(m)
    \/ SendWithRetry
    \/ Return

Spec == Init /\ [][Next]_vars

\* a frame of sendWithRetry that is about to run does run: the call is
\* synchronous and Do returns, with a response or with an error, at the
\* latest when the timeout of the sender expires
SpecFair == Spec /\ WF_vars(SendWithRetry)

\* the client of part_000: the same operations over its sendWithRetry
Next_part000 ==
    \/ pc = "idle" /\ \E process \in {Word, <<>>}, uid \in UIDs :
           Start(process, <<>>, uid)
    \/ pc = "idle" /\ \E process \in {Word, <<>>}, uid \in UIDs :
           End(process, <<>>, uid)
    \/ pc = "idle" /\ \E message \in Messages : Exception(Word, <<>>, message)
    \/ pc = "idle" /\ \E items \in ItemMaps : Metrics(Word, <<>>, items)
    \/ pc = "idle" /\ \E n \in 0..MaxBudget : CallSendWithRetry(EmptyRequest, "/v1/test", n)
    \/ SendWithRetry_part000
    \/ Return

Spec_part000 == Init /\ [][Next_part000]_vars

\* two goroutines calling one client: the calls interleave frame by frame
InitConc ==
    /\ hfc \in { New(k, <<OptionMaxRetries(n), OptionDebug(d)>>) :
                    k \in {Word, <<>>}, n \in 0..MaxConcBudget, d \in BOOLEAN }
    /\ pc = IdleCall.pc
    /\ call = IdleCall.call
    /\ r = IdleCall.r
    /\ count = IdleCall.count
    /\ depth = IdleCall.depth
    /\ retry = IdleCall.retry
    /\ err = IdleCall.err
    /\ responses = IdleCall.responses
    /\ printed = IdleCall.printed
    /\ request = IdleCall.request
    /\ parked = IdleCall

NextConc ==
    \/ pc = "idle" /\ \E process \in {Word, <<>>} : Start(process, <<>>, Rep(45, 50))
    \/ pc = "idle" /\ Metrics(Word, <<>>, Word :> "123")
    \/ SendWithRetry
    \/ Return
    \/ Switch

SpecConc == InitConc /\ [][NextConc]_vars

\* the construction of clients alone, with every option of the package
NextNew ==
    \/ pc = "idle" /\ \E apiKey \in {Word, <<>>}, options \in AllOptionLists :
           CallNew(apiKey, options)
    \/ Return

SpecNew == Init /\ [][NextNew]_vars

(***************************************************************************)
(* Vocabulary of the properties.                                           *)
(***************************************************************************)
PublicOps == {"Start", "End", "Exception", "Metrics"}

\* the running call is a public operation
Public == call.op \in PublicOps

\* the running call goes through sendWithRetry
Retrying == call.op \in PublicOps \cup {"sendWithRetry"}

\* the errors the validation chain of the running operation may return
ValidationErrors ==
    CASE call.op \in {"Start", "End"} -> {validateTime(r)}
      [] call.op = "Exception" -> {validateException(r)}
      [] call.op = "Metrics" -> {validateMetric(r, k) : k \in LongKeys(r.Items)}
      [] OTHER -> {nil}

\* the arguments of the running call pass its validation chain
ArgsPass == \A e \in ValidationErrors : e.isNil

\* valid arguments: they pass the validation chain and the payload can be
\* written as JSON (no NaN or infinite metric value)
ArgsValid == ArgsPass /\ jsonEncode(r).err.isNil

\* the code points of [a-zA-Z0-9_-]
Allowed == (48..57) \cup (65..90) \cup (97..122) \cup {45, 95}

\* s is made of allowed characters only
OnlyAllowed(s) == \A i \in 1..Len(s) : s[i].c \in Allowed

\* the API key is valid: [a-zA-Z0-9_-]{1,50}
KeyValid == hfc.apiKey # <<>> /\ CharLen(hfc.apiKey) <= 50 /\ OnlyAllowed(hfc.apiKey)

ConnectionFailedPermanently == createError("Connection failed permanently.")

\* the i-th answer of the sender was a response with this status
IsStatus(i, status) == responses[i].err.isNil /\ responses[i].StatusCode = status

\* the i-th answer of the sender was a transport error
IsDoError(i) == ~responses[i].err.isNil

\* the first message of an error's text
Message(e) == IF e.text = <<>> THEN "" ELSE e.text[1]

\* C1: with a valid API key, valid arguments, a budget N >= 1 and a sender
\* that answers 500 every time, the call invokes the sender exactly N times
\* and then returns "Connection failed permanently."
C1_ExactlyNAttempts ==
    ( /\ Retrying /\ pc # "idle"
      /\ KeyValid /\ ArgsValid
      /\ call.budget >= 1
      /\ \A i \in 1..Len(responses) : IsStatus(i, 500) )
    => /\ pc = "sendWithRetry" => count + Len(responses) = call.budget
       /\ pc = "done" => /\ Len(responses) = call.budget
                         /\ err = ConnectionFailedPermanently

C1_Witness ==
    /\ pc = "done" /\ call.op = "Metrics" /\ KeyValid /\ ArgsValid
    /\ hfc.maxRetries = 3 /\ call.budget = 3
    /\ Len(responses) = 3 /\ \A i \in 1..3 : IsStatus(i, 500)
    /\ err = ConnectionFailedPermanently

\* C2: with a valid API key, valid arguments and maxRetries >= 1, a public
\* operation whose sender answers 201 to the first call invokes the sender
\* exactly once and returns nil
C2_SuccessOnFirst ==
    ( /\ Public /\ pc # "idle"
      /\ KeyValid /\ ArgsValid
      /\ hfc.maxRetries >= 1 )
    => /\ pc = "done" => Len(responses) >= 1
       /\ (Len(responses) >= 1 /\ IsStatus(1, StatusCreated))
            => pc = "done" /\ Len(responses) = 1 /\ err = nil

C2_Witness ==
    /\ pc = "done" /\ call.op = "Exception" /\ KeyValid /\ ArgsValid
    /\ hfc.maxRetries = 2
    /\ Len(responses) = 1 /\ IsStatus(1, StatusCreated)
    /\ err = nil

\* C3: when sendWithRetry is entered with budget 0 (maxRetries configured as
\* 0, or count 0), the sender is never invoked and the call returns
\* "Connection failed permanently." from its first frame
C3_ZeroBudget ==
    ( /\ Retrying
      /\ pc = "sendWithRetry" \/ depth >= 1
      /\ call.budget = 0 )
    => /\ responses = <<>>
       /\ request = NoRequest
       /\ depth <= 1
       /\ depth = 1 => pc = "done" /\ err = ConnectionFailedPermanently

C3_Witness ==
    /\ pc = "done" /\ call.op = "Start" /\ KeyValid /\ ArgsValid
    /\ hfc.maxRetries = 0
    /\ depth = 1 /\ responses = <<>>
    /\ err = ConnectionFailedPermanently

\* C4: an attempt that receives status 401 ends the call: it is the call's
\* last sender invocation whatever budget remains, and the returned error's
\* text is exactly the response body, without the documentation suffix
C4_UnauthorizedNotRetried ==
    \A i \in 1..Len(responses) :
        IsStatus(i, StatusUnauthorized)
        => /\ i = Len(responses)
           /\ pc = "done"
           /\ retry = FALSE
           /\ ~err.isNil
           /\ err.text = <<responses[i].Body>>
           /\ err.text[Len(err.text)] # DocSuffix

C4_Witness ==
    /\ pc = "done" /\ call.op = "sendWithRetry" /\ call.budget = 3
    /\ Len(responses) = 1 /\ IsStatus(1, StatusUnauthorized)
    /\ count = 3
    /\ err.text = <<"{status:401,message:unauthorized}">>

\* C5: a transport failure is retryable: send returns retry = true with the
\* sender's error, and with a valid API key, valid arguments, a budget
\* N >= 1 and a sender that errors every time the call invokes the sender
\* exactly N times and returns "Connection failed permanently."
C5_TransportFailureRetried ==
    /\ ( /\ call.op = "send" /\ pc = "done"
         /\ Len(responses) = 1 /\ IsDoError(1) )
       => retry = TRUE /\ err = responses[1].err
    /\ ( /\ Retrying /\ pc # "idle"
         /\ KeyValid /\ ArgsValid
         /\ call.budget >= 1
         /\ \A i \in 1..Len(responses) : IsDoError(i) )
       => /\ Len(responses) >= 1 => retry = TRUE
          /\ pc = "sendWithRetry" => count + Len(responses) = call.budget
          /\ pc = "done" => /\ Len(responses) = call.budget
                            /\ err = ConnectionFailedPermanently
                            /\ \A i \in 1..Len(responses) : err # responses[i].err

C5_Witness ==
    /\ pc = "done" /\ call.op = "End" /\ KeyValid /\ ArgsValid
    /\ call.budget = 2
    /\ Len(responses) = 2 /\ IsDoError(1) /\ IsDoError(2)
    /\ err = ConnectionFailedPermanently

\* send has been called by the running call
SendCalled == call.op = "send" \/ (Retrying /\ depth >= 1 /\ call.budget >= 1)

\* C6: send validates the API key before any request is issued: an empty key
\* gives "No API Key set.", a key longer than 50 or with a character outside
\* [a-zA-Z0-9_-] gives "Invalid API Key format."; send then reports
\* retry = false, the sender is not invoked, and sendWithRetry returns that
\* error from its first frame
C6_ApiKeyValidatedInSend ==
    (pc # "idle" /\ SendCalled /\ ~KeyValid)
    => /\ pc = "done"
       /\ err = IF hfc.apiKey = <<>>
                THEN createError("No API Key set.")
                ELSE createError("Invalid API Key format.")
       /\ retry = FALSE
       /\ responses = <<>>
       /\ request = NoRequest
       /\ depth <= 1

C6_Witness ==
    /\ pc = "done" /\ call.op = "sendWithRetry" /\ call.budget = 3
    /\ hfc.apiKey = Rep(97, 51)
    /\ depth = 1 /\ responses = <<>> /\ retry = FALSE
    /\ err = createError("Invalid API Key format.")

\* C7: when the validation chain of Start, End, Exception or Metrics fails,
\* the operation returns the validation error at once: sendWithRetry is not
\* entered and the sender is not invoked, whatever the sender, the API key
\* and maxRetries
C7_ValidationShortCircuits ==
    (Public /\ pc # "idle" /\ ~ArgsPass)
    => /\ pc = "done"
       /\ err \in ValidationErrors
       /\ ~err.isNil
       /\ depth = 0
       /\ responses = <<>>
       /\ request = NoRequest

C7_Witness ==
    /\ pc = "done" /\ call.op = "Metrics" /\ ~ArgsPass
    /\ ~KeyValid /\ hfc.maxRetries = 0
    /\ err = createError("No items set.")
    /\ depth = 0 /\ responses = <<>>

\* C8: a public operation returns nil exactly when its last sender
\* invocation answered status 201; every other outcome returns a non-nil
\* error
C8_NilIffCreated ==
    (Public /\ pc = "done")
    => (err.isNil <=> (Len(responses) >= 1 /\ IsStatus(Len(responses), StatusCreated)))

C8_Witness ==
    /\ pc = "done" /\ call.op = "Metrics"
    /\ Len(responses) = 3
    /\ IsStatus(1, 500) /\ IsDoError(2) /\ IsStatus(3, StatusCreated)
    /\ err.isNil

\* the field an error message is about
ProcessMessages ==
    { "No process set.",
      "Process parameter exceeded max length of 250 characters.",
      "Process parameter contains unsupported characters." }

MetaMessages ==
    { "Meta parameter exceeded max length of 500 characters.",
      "Meta parameter contains unsupported characters." }

UIDMessages ==
    { "UID parameter exceeded max length of 50 characters.",
      "UID parameter contains unsupported characters." }

ExceptionMessages ==
    { "ExceptionMessage parameter exceeded max length of 15000 characters." }

ItemsMessages ==
    { "No items set.", "Item key %s exceeded max length of 50 characters." }

\* the fields that are invalid, by the constraints of each field
ProcessInvalid == ~(r.Process # <<>> /\ ByteLen(r.Process) <= 250 /\ OnlyAllowed(r.Process))

MetaInvalid == ~(ByteLen(r.Meta) <= 500 /\ OnlyAllowed(r.Meta))

UIDInvalid == ~(ByteLen(r.UID) <= 50 /\ OnlyAllowed(r.UID))

ExceptionMessageInvalid == ByteLen(r.ExceptionMessage) > 15000

ItemsInvalid == DOMAIN r.Items = {} \/ \E k \in DOMAIN r.Items : ByteLen(k) > 50

\* the operation-specific field is invalid
ThirdInvalid ==
    CASE call.op \in {"Start", "End"} -> UIDInvalid
      [] call.op = "Exception" -> ExceptionMessageInvalid
      [] call.op = "Metrics" -> ItemsInvalid
      [] OTHER -> FALSE

ThirdMessages ==
    CASE call.op \in {"Start", "End"} -> UIDMessages
      [] call.op = "Exception" -> ExceptionMessages
      [] call.op = "Metrics" -> ItemsMessages
      [] OTHER -> {}

\* C9: validation checks process, then meta, then the operation-specific
\* field (uid, exception message, items), and the error returned is the one
\* of the first invalid field in that order
C9_ValidationOrder ==
    (Public /\ pc = "done")
    => /\ ProcessInvalid => Message(err) \in ProcessMessages
       /\ (~ProcessInvalid /\ MetaInvalid) => Message(err) \in MetaMessages
       /\ (~ProcessInvalid /\ ~MetaInvalid /\ ThirdInvalid) => Message(err) \in ThirdMessages
       /\ (err.text # <<>> /\ err.text[Len(err.text)] = DocSuffix
           /\ err # ConnectionFailedPermanently
           /\ Message(err) \notin {"No API Key set.", "Invalid API Key format."})
          => (ProcessInvalid \/ MetaInvalid \/ ThirdInvalid)

C9_Witness ==
    /\ pc = "done" /\ call.op = "Exception"
    /\ ProcessInvalid /\ MetaInvalid /\ ExceptionMessageInvalid
    /\ Message(err) \in ProcessMessages

\* s matches [a-zA-Z0-9_-]{1,250}
MatchesProcessPattern(s) == CharLen(s) >= 1 /\ CharLen(s) <= 250 /\ OnlyAllowed(s)

ItemsPass == \A first \in LongKeys(r.Items) : validateMetricItems(r.Items, first).isNil

\* C11: validateMetricItems passes for every mapping with at least one entry
\* whose keys are all at most 50 characters long, whatever the characters
\* and the values; a mapping without entries fails with "No items set." and
\* a mapping with a key longer than 50 characters fails with the
\* key-too-long error
C11_MetricItemsByCharacters ==
    (call.op = "Metrics" /\ pc # "idle" /\ ~ProcessInvalid /\ ~MetaInvalid)
    => /\ (DOMAIN r.Items # {} /\ \A k \in DOMAIN r.Items : CharLen(k) <= 50)
          => /\ ItemsPass
             /\ pc = "done" => Message(err) \notin ItemsMessages
       /\ DOMAIN r.Items = {}
          => \A first \in LongKeys(r.Items) :
                 validateMetricItems(r.Items, first) = createError("No items set.")
       /\ (\E k \in DOMAIN r.Items : CharLen(k) > 50)
          => \A first \in LongKeys(r.Items) :
                 /\ Message(validateMetricItems(r.Items, first))
                        = "Item key %s exceeded max length of 50 characters."
                 /\ CharLen(validateMetricItems(r.Items, first).arg) > 50

\* the keys of a JSON body, in the order they are written
RECURSIVE BodyKeys(_)
BodyKeys(body) ==
    IF body = <<>> THEN <<>>
    ELSE IF Head(body).key = "\n" THEN BodyKeys(Tail(body))
    ELSE <<Head(body).key>> \o BodyKeys(Tail(body))

\* the body has the key, with this value
HasField(body, key, value) ==
    \E i \in 1..Len(body) : body[i].key = key /\ body[i].value = value

\* the body has the key
HasKey(body, key) == \E i \in 1..Len(body) : body[i].key = key

\* C12: the body of a request handed to the sender always has the key
\* process, and has the keys meta, uid, exception and items exactly when the
\* field of the payload is not empty, each with the field's value; Start
\* and End never emit exception or items, Exception never uid or items,
\* Metrics never uid or exception
C12_BodyOmitsEmptyFields ==
    (request # NoRequest)
    => LET body == request.Body
       IN  /\ HasField(body, "process", r.Process)
           /\ HasKey(body, "meta") <=> r.Meta # <<>>
           /\ HasKey(body, "uid") <=> r.UID # <<>>
           /\ HasKey(body, "exception") <=> r.ExceptionMessage # <<>>
           /\ HasKey(body, "items") <=> DOMAIN r.Items # {}
           /\ r.Meta # <<>> => HasField(body, "meta", r.Meta)
           /\ r.UID # <<>> => HasField(body, "uid", r.UID)
           /\ r.ExceptionMessage # <<>> => HasField(body, "exception", r.ExceptionMessage)
           /\ DOMAIN r.Items # {} => HasField(body, "items", r.Items)
           /\ \A i \in 1..Len(BodyKeys(body)) :
                  BodyKeys(body)[i] \in {"process", "meta", "uid", "exception", "items"}
           /\ call.op \in {"Start", "End"}
              => ~HasKey(body, "exception") /\ ~HasKey(body, "items")
           /\ call.op = "Exception" => ~HasKey(body, "uid") /\ ~HasKey(body, "items")
           /\ call.op = "Metrics" => ~HasKey(body, "uid") /\ ~HasKey(body, "exception")
           /\ (r.Meta # <<>> /\ r.UID # <<>>)
              => BodyKeys(body) = <<"process", "meta", "uid">>

C12_Witness ==
    /\ call.op = "Start" /\ request # NoRequest
    /\ r.Process = Word /\ r.Meta = Rep(65, 500) /\ r.UID = Rep(45, 50)
    /\ BodyKeys(request.Body) = <<"process", "meta", "uid">>
    /\ HasField(request.Body, "uid", Rep(45, 50))

\* the place in the options of the last one that sets the field, 0 if none
LastSetting(options, field) ==
    LET at == { i \in 1..Len(options) : options[i].set = field }
    IN  IF at = {} THEN 0 ELSE CHOOSE i \in at : \A j \in at : j <= i

\* C13: New starts from the defaults (maxRetries 3, debug off, the default
\* endpoint, logger and sender) and each field ends with the value written by
\* the last option that sets it; OptionTimeout and OptionHTTPClient both set
\* the sender, so the later of the two decides it
C13_LastOptionWins ==
    (pc = "done" /\ call.op = "New")
    => LET apiKey == call.args[1]
           options == call.args[2]
           last(field) == options[LastSetting(options, field)]
           set(field) == LastSetting(options, field) # 0
       IN  /\ hfc.apiKey = apiKey
           /\ hfc.endpoint = _ENDPOINT
           /\ hfc.maxRetries = IF set("maxRetries") THEN last("maxRetries").uint8 ELSE 3
           /\ hfc.debug = IF set("debug") THEN last("debug").bool ELSE FALSE
           /\ hfc.logger = IF set("logger") THEN last("logger").logger ELSE DefaultLogger
           /\ hfc.httpClient = IF set("httpClient") THEN last("httpClient").httpClient
                               ELSE HTTPClient(DefaultTimeout)

C13_Witness ==
    /\ pc = "done" /\ call.op = "New"
    /\ call.args[2] = <<OptionHTTPClient([type |-> "ClientMock", Timeout |-> 0]),
                        OptionTimeout(123)>>
    /\ hfc.httpClient = HTTPClient(123)
    /\ hfc.maxRetries = 3 /\ ~hfc.debug

\* the log calls one answer of the sender leads to: the path and the data
\* before Do, the status and the body of a response, the failed attempt
LogCallsOfAnswer(i) ==
    IF call.op = "send"
    THEN IF IsDoError(i) THEN 2 ELSE 4
    ELSE IF IsDoError(i) THEN 3
    ELSE IF IsStatus(i, StatusCreated) THEN 4 ELSE 5

RECURSIVE LogCallsOfAnswers(_)
LogCallsOfAnswers(n) == IF n = 0 THEN 0 ELSE LogCallsOfAnswers(n - 1) + LogCallsOfAnswer(n)

\* the log calls the running call has made so far
LogCalls ==
    (IF call.op = "log" \/ (Public /\ ArgsPass) THEN 1 ELSE 0)
    + LogCallsOfAnswers(Len(responses))
    + (IF Retrying /\ depth >= 1 /\ call.budget >= 1 /\ ~(KeyValid /\ ArgsValid)
       THEN 1 ELSE 0)

\* C14: with debug disabled no operation of the client ever reaches the
\* logger; with debug enabled every log(m) call delivers exactly one message,
\* "HF " followed by m and a newline
C14_DebugGatesLogger ==
    /\ ~hfc.debug => printed = <<>>
    /\ hfc.debug
       => /\ Len(printed) = LogCalls
          /\ \A i \in 1..Len(printed) : printed[i].prefix = "HF " /\ printed[i].nl = "\n"
          /\ (pc = "done" /\ call.op = "log")
             => printed = <<[prefix |-> "HF ", m |-> call.args[1], nl |-> "\n"]>>

C14_Witness ==
    /\ pc = "done" /\ call.op = "log" /\ hfc.debug
    /\ printed = <<[prefix |-> "HF ", m |-> Sprintf("test log message", <<>>), nl |-> "\n"]>>

\* a call on the shared client behaves as it would alone: its budget is the
\* client's maxRetries, it invokes the sender at most that often, and it
\* returns what sendWithRetry returns for the answers this call received
AsAlone(f) ==
    (f.call.op \in PublicOps)
    => /\ Len(f.responses) <= hfc.maxRetries
       /\ f.depth >= 1 => f.call.budget = hfc.maxRetries
       /\ f.pc = "sendWithRetry" => f.count + Len(f.responses) = hfc.maxRetries
       /\ (f.pc = "done" /\ f.depth >= 1)
          => LET alone == sendWithRetry(hfc, f.r, f.call.path, hfc.maxRetries, f.responses)
             IN  ~alone.pending /\ alone.rest = <<>> /\ f.err = alone.err

\* C15: no operation writes a field of the client, and the budget is a
\* local of the call; so when the calls of two goroutines interleave, each
\* invokes the sender at most maxRetries times and returns what it would
\* return alone for the answers it received, and a call that exhausted its
\* budget leaves the budget of the other and of later calls as it was
C15_NoSharedState ==
    /\ [][hfc' = hfc]_vars
    /\ [](AsAlone(Running) /\ AsAlone(parked))

C15_Witness ==
    /\ hfc.maxRetries = 2
    /\ parked.pc = "done" /\ parked.call.op = "Start"
    /\ Len(parked.responses) = 2 /\ parked.err = ConnectionFailedPermanently
    /\ pc = "sendWithRetry" /\ call.op = "Metrics"
    /\ count = 1 /\ Len(responses) = 1

\* the i-th answer was a response with a status other than 201
IsOtherStatus(i) == responses[i].err.isNil /\ responses[i].StatusCode # StatusCreated

\* C16: in the status-code policy a failure of Do is not retried: the sender
\* is not invoked again and the error of Do is returned as it is; every
\* received status other than 201, 401 included, is retried with the budget
\* less 1
C16_StatusCodePolicy ==
    (Retrying /\ pc # "idle" /\ KeyValid /\ ArgsValid /\ call.budget >= 1)
    => /\ pc = "sendWithRetry" => count + Len(responses) = call.budget
       /\ \A i \in 1..Len(responses) :
              /\ IsDoError(i)
                 => /\ i = Len(responses) /\ pc = "done"
                    /\ err = responses[i].err
              /\ IsOtherStatus(i)
                 => \/ i < Len(responses)
                    \/ pc = "sendWithRetry" /\ count = call.budget - i
                    \/ pc = "done" /\ i = call.budget /\ err = ConnectionFailedPermanently

\* C17: whatever the sender answers, a call of Start, End, Exception or
\* Metrics invokes the sender at most maxRetries times, its budget stays
\* within 0..maxRetries and goes down by exactly 1 at every retry, and the
\* call ends with a result
C17_BoundedAndTerminates ==
    /\ [](Public => /\ Len(responses) <= hfc.maxRetries
                    /\ count \in 0..hfc.maxRetries
                    /\ pc = "sendWithRetry" => count + Len(responses) = hfc.maxRetries)
    /\ [][(Public /\ pc = "sendWithRetry" /\ pc' = "sendWithRetry")
          => (count >= 1 /\ count' = count - 1)]_vars
    /\ (Public /\ pc = "sendWithRetry") ~> (Public /\ pc = "done")

C17_Witness ==
    /\ pc = "done" /\ call.op = "End" /\ hfc.maxRetries = 3
    /\ Len(responses) = 3 /\ count = 0
    /\ IsDoError(1) /\ IsStatus(2, 200) /\ IsDoError(3)
    /\ err = ConnectionFailedPermanently

\* the i-th answer of the sender was a failure that is retried: an error of
\* Do, or a status other than 201 and 401
IsRetryable(i) ==
    \/ IsDoError(i)
    \/ responses[i].StatusCode \notin {StatusCreated, StatusUnauthorized}

\* C18: with a valid API key and valid arguments, when the sender fails
\* retryably k times and then answers 201, with k < maxRetries, the
\* operation invokes the sender k+1 times and returns nil; when it fails
\* retryably maxRetries times the sender is not invoked again and
\* "Connection failed permanently." is returned
C18_RecoveryWithinBudget ==
    (Public /\ pc # "idle" /\ KeyValid /\ ArgsValid)
    => LET n == Len(responses)
       IN  /\ n <= hfc.maxRetries
           /\ \A k \in 0..(n - 1) :
                  ((\A i \in 1..k : IsRetryable(i)) /\ IsStatus(k + 1, StatusCreated))
                  => /\ k < hfc.maxRetries
                     /\ n = k + 1
                     /\ pc = "done" /\ err = nil
           /\ (\A i \in 1..n : IsRetryable(i))
              => /\ pc = "sendWithRetry" => count = hfc.maxRetries - n
                 /\ pc = "done" => (n = hfc.maxRetries /\ err = ConnectionFailedPermanently)

C18_Witness ==
    /\ pc = "done" /\ call.op = "Start" /\ KeyValid /\ ArgsValid
    /\ hfc.maxRetries = 3 /\ Len(responses) = 3
    /\ IsDoError(1) /\ IsStatus(2, 500) /\ IsStatus(3, StatusCreated)
    /\ err = nil

\* the errors of the API key check
ApiKeyErrors == { createError("No API Key set."), createError("Invalid API Key format.") }

\* C19: a validation error of the arguments wins over everything else;
\* with valid arguments a budget of 0 wins over the API key check; the API
\* key error is returned exactly when the arguments pass validation, the
\* budget is at least 1 and the API key is invalid
C19_ErrorPrecedence ==
    (Public /\ pc = "done")
    => /\ ~ArgsPass => (err \in ValidationErrors /\ err \notin ApiKeyErrors
                        /\ err # ConnectionFailedPermanently)
       /\ (ArgsPass /\ hfc.maxRetries = 0) => err = ConnectionFailedPermanently
       /\ (ArgsPass /\ hfc.maxRetries >= 1 /\ ~KeyValid) => err \in ApiKeyErrors
       /\ err \in ApiKeyErrors => (ArgsPass /\ hfc.maxRetries >= 1 /\ ~KeyValid)

C19_Witness ==
    /\ pc = "done" /\ call.op = "Exception" /\ ArgsPass
    /\ hfc.maxRetries = 0 /\ hfc.apiKey = <<>>
    /\ err = ConnectionFailedPermanently /\ responses = <<>>

====
